---- MODULE Spec2Model ----
(***************************************************************************)
(* Model of the Green Mobility backend (src/server.js, lines 1-185): the   *)
(* in-memory users and rides arrays, the Haversine distance helper and the *)
(* four request handlers (signup, login, publish ride, search rides).      *)
(*                                                                         *)
(* JavaScript values are modelled as tagged records [t, s, n]: t is the    *)
(* type ("undefined", "string" or "number"), s the characters of a string  *)
(* (a sequence of one-character strings, <<>> for the other types) and n   *)
(* the Number of a number (Zero for the other types).                      *)
(* A JavaScript Number (an IEEE-754 double) is modelled as a decimal       *)
(* floating-point number of Prec significant digits,                       *)
(*   [k |-> "num", s |-> sign, m |-> mantissa, e |-> exponent]             *)
(* of value s * m * 10^e, or NaN ([k |-> "nan", ...]).  Every operation    *)
(* rounds its exact result to Prec digits, to nearest, ties away from      *)
(* zero, so rounding is symmetric under negation as it is in IEEE-754.     *)
(***************************************************************************)
EXTENDS Integers, Sequences, FiniteSets

(* ---------------------------------------------------------------------- *)
(* Numbers                                                                 *)
(* ---------------------------------------------------------------------- *)

\* Significant decimal digits kept by the model's Number.
Prec == 4

RECURSIVE Pow10(_)
Pow10(n) == IF n <= 0 THEN 1 ELSE 10 * Pow10(n - 1)

RECURSIVE NumDigits(_)
NumDigits(n) == IF n < 10 THEN 1 ELSE 1 + NumDigits(n \div 10)

Abs(i) == IF i < 0 THEN -i ELSE i

Sign(i) == IF i < 0 THEN -1 ELSE 1

NaN == [k |-> "nan", s |-> 1, m |-> 0, e |-> 0]

Zero == [k |-> "num", s |-> 1, m |-> 0, e |-> 0]

IsNaN(x) == x.k = "nan"

IsZero(x) == x.k = "num" /\ x.m = 0

\* The Number nearest to sg * mag * 10^ex (mag >= 0), normalised: the
\* mantissa has exactly Prec digits, or the number is Zero.
RECURSIVE Norm(_, _, _)
Norm(sg, mag, ex) ==
    IF mag = 0 THEN Zero
    ELSE IF mag < Pow10(Prec - 1) THEN Norm(sg, mag * 10, ex - 1)
    ELSE IF mag < Pow10(Prec) THEN [k |-> "num", s |-> sg, m |-> mag, e |-> ex]
    ELSE LET d == NumDigits(mag) - Prec
             p == Pow10(d)
             r == (mag \div p) + (IF 2 * (mag % p) >= p THEN 1 ELSE 0)
         IN  Norm(sg, r, ex + d)

\* The Number of an integer.
FInt(i) == Norm(Sign(i), Abs(i), 0)

FNeg(x) == IF IsNaN(x) \/ IsZero(x) THEN x ELSE [x EXCEPT !.s = -x.s]

FMul(x, y) ==
    IF IsNaN(x) \/ IsNaN(y) THEN NaN
    ELSE Norm(x.s * y.s, x.m * y.m, x.e + y.e)

\* x + y.  The operand of smaller exponent is dropped when it lies below
\* half a unit in the last place of the other.
FAdd(x, y) ==
    IF IsNaN(x) \/ IsNaN(y) THEN NaN
    ELSE IF IsZero(x) THEN y
    ELSE IF IsZero(y) THEN x
    ELSE LET hi == IF x.e >= y.e THEN x ELSE y
             lo == IF x.e >= y.e THEN y ELSE x
             d  == hi.e - lo.e
         IN  IF d > Prec + 1 THEN hi
             ELSE LET v == hi.s * hi.m * Pow10(d) + lo.s * lo.m
                  IN  Norm(Sign(v), Abs(v), lo.e)

FSub(x, y) == FAdd(x, FNeg(y))

\* x / y, for y # 0 (the model never divides by zero).
FDiv(x, y) ==
    IF IsNaN(x) \/ IsNaN(y) \/ IsZero(y) THEN NaN
    ELSE IF IsZero(x) THEN Zero
    ELSE LET n == x.m * Pow10(Prec)
             q == (2 * n + y.m) \div (2 * y.m)
         IN  Norm(x.s * y.s, q, x.e - y.e - Prec)

\* x <= y as JavaScript compares Numbers: false when either is NaN.
FLe(x, y) ==
    IF IsNaN(x) \/ IsNaN(y) THEN FALSE
    ELSE LET d == FSub(x, y) IN IsZero(d) \/ d.s = -1

FLt(x, y) == FLe(x, y) /\ ~FLe(y, x)

\* x === y on Numbers: NaN equals nothing.
FEq(x, y) == ~IsNaN(x) /\ ~IsNaN(y) /\ x = y

\* floor(sqrt(n)) by bisection; hi * hi stays below 2^31.
RECURSIVE ISqrtIter(_, _, _)
ISqrtIter(n, lo, hi) ==
    IF lo >= hi THEN lo
    ELSE LET mid == (lo + hi + 1) \div 2
         IN  IF mid * mid <= n THEN ISqrtIter(n, mid, hi)
             ELSE ISqrtIter(n, lo, mid - 1)

ISqrt(n) == ISqrtIter(n, 0, 46340)

\* Math.sqrt, rounded to nearest: NaN for a negative argument.
FSqrt(x) ==
    IF IsNaN(x) THEN NaN
    ELSE IF IsZero(x) THEN Zero
    ELSE IF x.s = -1 THEN NaN
    ELSE LET odd == (x.e % 2) # 0
             mm  == IF odd THEN x.m * 10 ELSE x.m
             ee  == IF odd THEN x.e - 1 ELSE x.e
             n   == mm * Pow10(Prec)
             r   == ISqrt(n)
             up  == IF n - r * r > r THEN r + 1 ELSE r
         IN  Norm(1, up, (ee - Prec) \div 2)

\* sum_{i} (-1)^i x^(2i+first) / (2i+first)!, the Maclaurin series of sin
\* (first = 1) and cos (first = 0), summed term by term in Number
\* arithmetic: term is the current term, n its degree.
RECURSIVE Maclaurin(_, _, _, _, _)
Maclaurin(term, x2, n, left, acc) ==
    IF left = 0 THEN acc
    ELSE LET next == FNeg(FDiv(FMul(term, x2), FInt((n + 1) * (n + 2))))
         IN  Maclaurin(next, x2, n + 2, left - 1, FAdd(acc, term))

\* Terms of the sine and cosine series that are summed.
SeriesTerms == 9

\* Math.sin, for |x| <= pi.
FSin(x) == IF IsNaN(x) THEN NaN ELSE Maclaurin(x, FMul(x, x), 1, SeriesTerms, Zero)

\* Math.cos, for |x| <= pi.
FCos(x) == IF IsNaN(x) THEN NaN ELSE Maclaurin(FInt(1), FMul(x, x), 0, SeriesTerms, Zero)

\* Math.PI
MathPI == Norm(1, 314159265, -8)

\* sum_{i} (-1)^i t^(2i+1) / (2i+1), the series of atan, for |t| < 1/2.
RECURSIVE AtanSeries(_, _, _, _, _)
AtanSeries(pw, t2, n, left, acc) ==
    IF left = 0 THEN acc
    ELSE AtanSeries(FNeg(FMul(pw, t2)), t2, n + 2, left - 1,
                    FAdd(acc, FDiv(pw, FInt(n))))

\* 2 atan(h) by the series, for |h| < 1/2.
FAtanTwice(h) == FMul(FInt(2), AtanSeries(h, FMul(h, h), 1, SeriesTerms, Zero))

\* atan(t) for 0 <= t <= 1: the argument is halved once by
\* atan(t) = 2 atan(t / (1 + sqrt(1 + t^2))), then the series is summed.
FAtanUnit(t) ==
    FAtanTwice(FDiv(t, FAdd(FInt(1), FSqrt(FAdd(FInt(1), FMul(t, t))))))

\* Math.atan2(y, x) for finite arguments.
RECURSIVE FAtan2(_, _)
FAtan2(y, x) ==
    IF IsNaN(y) \/ IsNaN(x) THEN NaN
    ELSE IF y.s = -1 /\ ~IsZero(y) THEN FNeg(FAtan2(FNeg(y), x))
    ELSE IF x.s = -1 /\ ~IsZero(x) THEN FSub(MathPI, FAtan2(y, FNeg(x)))
    ELSE IF IsZero(y) THEN Zero
    ELSE IF IsZero(x) THEN FDiv(MathPI, FInt(2))
    ELSE IF FLe(y, x) THEN FAtanUnit(FDiv(y, x))
    ELSE FSub(FDiv(MathPI, FInt(2)), FAtanUnit(FDiv(x, y)))

(* ---------------------------------------------------------------------- *)
(* JavaScript values, truthiness, strict equality and conversions          *)
(* ---------------------------------------------------------------------- *)

Undefined == [t |-> "undefined", s |-> <<>>, n |-> Zero]

\* A string value of the characters cs.
S(cs) == [t |-> "string", s |-> cs, n |-> Zero]

\* A number value.
N(f) == [t |-> "number", s |-> <<>>, n |-> f]

\* ToBoolean: the operand of ! and of &&.  undefined, "", 0 and NaN are falsy.
Truthy(x) ==
    CASE x.t = "undefined" -> FALSE
      [] x.t = "string" -> x.s # <<>>
      [] x.t = "number" -> ~IsNaN(x.n) /\ ~IsZero(x.n)

\* x === y: same type and same value; no conversion.
StrictEq(x, y) ==
    /\ x.t = y.t
    /\ CASE x.t = "undefined" -> TRUE
         [] x.t = "string" -> x.s = y.s
         [] x.t = "number" -> FEq(x.n, y.n)

Digits == <<"0", "1", "2", "3", "4", "5", "6", "7", "8", "9">>

IsDigit(c) == \E d \in 1..10 : Digits[d] = c

DigitVal(c) == (CHOOSE d \in 1..10 : Digits[d] = c) - 1

\* The decimal digits of n >= 0 (Number.prototype.toString of an integer).
RECURSIVE IntToChars(_)
IntToChars(n) ==
    IF n < 10 THEN <<Digits[n + 1]>>
    ELSE Append(IntToChars(n \div 10), Digits[(n % 10) + 1])

RECURSIVE Zeros(_)
Zeros(n) == IF n <= 0 THEN <<>> ELSE <<"0">> \o Zeros(n - 1)

RECURSIVE StripZeros(_)
StripZeros(cs) ==
    IF cs # <<>> /\ cs[Len(cs)] = "0" THEN StripZeros(SubSeq(cs, 1, Len(cs) - 1))
    ELSE cs

\* Number::toString in plain decimal notation (the model's numbers stay in
\* the range JavaScript prints without an exponent).
NumberToString(x) ==
    IF IsNaN(x) THEN <<"N", "a", "N">>
    ELSE IF IsZero(x) THEN <<"0">>
    ELSE LET ds   == IntToChars(x.m)
             p    == Len(ds) + x.e
             sg   == IF x.s = -1 THEN <<"-">> ELSE <<>>
             int  == IF p <= 0 THEN <<"0">>
                     ELSE IF x.e >= 0 THEN ds \o Zeros(x.e)
                     ELSE SubSeq(ds, 1, p)
             frac == IF x.e >= 0 THEN <<>>
                     ELSE IF p <= 0 THEN StripZeros(Zeros(-p) \o ds)
                     ELSE StripZeros(SubSeq(ds, p + 1, Len(ds)))
         IN  sg \o int \o (IF frac = <<>> THEN <<>> ELSE <<".">> \o frac)

\* String(x), the ToString conversion of a value: what a template literal or a query string carries.
String(x) ==
    CASE x.t = "undefined" -> <<"u", "n", "d", "e", "f", "i", "n", "e", "d">>
      [] x.t = "string" -> x.s
      [] x.t = "number" -> NumberToString(x.n)

\* The run of decimal digits of cs from position i: the integer read so far
\* (val), the number of digits read (cnt) and the position after them (pos).
RECURSIVE ScanDigits(_, _, _, _)
ScanDigits(cs, i, val, cnt) ==
    IF i <= Len(cs) /\ IsDigit(cs[i])
    THEN ScanDigits(cs, i + 1, val * 10 + DigitVal(cs[i]), cnt + 1)
    ELSE [val |-> val, cnt |-> cnt, pos |-> i]

\* parseFloat of a string: an optional sign, digits, an optional fraction;
\* whatever follows is ignored; NaN when no digit is read.
ParseFloatChars(cs) ==
    LET neg   == cs # <<>> /\ cs[1] = "-"
        start == IF cs # <<>> /\ cs[1] \in {"-", "+"} THEN 2 ELSE 1
        ip    == ScanDigits(cs, start, 0, 0)
        dot   == ip.pos <= Len(cs) /\ cs[ip.pos] = "."
        fp    == IF dot THEN ScanDigits(cs, ip.pos + 1, ip.val, 0)
                 ELSE [val |-> ip.val, cnt |-> 0, pos |-> ip.pos]
    IN  IF ip.cnt + fp.cnt = 0 THEN NaN
        ELSE Norm(IF neg THEN -1 ELSE 1, fp.val, -fp.cnt)

\* parseFloat(x): the argument is converted to a string first.
parseFloat(x) == ParseFloatChars(String(x))

\* parseInt of a string, radix 10: an optional sign and digits; NaN when no
\* digit is read.
ParseIntChars(cs) ==
    LET neg   == cs # <<>> /\ cs[1] = "-"
        start == IF cs # <<>> /\ cs[1] \in {"-", "+"} THEN 2 ELSE 1
        ip    == ScanDigits(cs, start, 0, 0)
    IN  IF ip.cnt = 0 THEN NaN ELSE Norm(IF neg THEN -1 ELSE 1, ip.val, 0)

\* parseInt(x): the argument is converted to a string first.
parseInt(x) == ParseIntChars(String(x))

\* Number.prototype.toFixed(2): the decimal numeral with exactly two
\* fraction digits that is nearest to x (ties away from zero).
toFixed2(x) ==
    IF IsNaN(x) THEN <<"N", "a", "N">>
    ELSE LET sh == x.e + 2
             n  == IF sh >= 0 THEN x.m * Pow10(sh)
                   ELSE IF -sh > Prec + 1 THEN 0
                   ELSE (2 * x.m + Pow10(-sh)) \div (2 * Pow10(-sh))
             sg == IF x.s = -1 /\ n > 0 THEN <<"-">> ELSE <<>>
             fr == IntToChars(n % 100)
         IN  sg \o IntToChars(n \div 100) \o <<".">>
                \o (IF Len(fr) = 1 THEN <<"0">> ELSE <<>>) \o fr

(* ---------------------------------------------------------------------- *)
(* Haversine distance                                                      *)
(* ---------------------------------------------------------------------- *)

\* HaversineA with the cosine of the first latitude taken twice.
HaversineACos1(sinLat, sinLon, cos1, cos2) ==
    FAdd(FMul(sinLat, sinLat), FMul(FMul(FMul(cos1, cos1), sinLon), sinLon))

\* HaversineC with the arguments of Math.atan2 exchanged.
HaversineCSwapped(a) == FMul(FInt(2), FAtan2(FSqrt(FSub(FInt(1), a)), FSqrt(a)))

\* function deg2rad(deg) { return deg * (Math.PI / 180) }
deg2rad(deg) == FMul(deg, FDiv(MathPI, FInt(180)))

\* const a = sin(dLat/2) * sin(dLat/2)
\*         + cos(deg2rad(lat1)) * cos(deg2rad(lat2)) * sin(dLon/2) * sin(dLon/2),
\* in JavaScript's order of evaluation; sinLat is sin(dLat/2), sinLon is
\* sin(dLon/2), cos1 and cos2 the two cosines.
HaversineA(sinLat, sinLon, cos1, cos2) ==
    FAdd(FMul(sinLat, sinLat), FMul(FMul(FMul(cos1, cos2), sinLon), sinLon))

\* const c = 2 * Math.atan2(Math.sqrt(a), Math.sqrt(1 - a))
HaversineC(a) == FMul(FInt(2), FAtan2(FSqrt(a), FSqrt(FSub(FInt(1), a))))

\* Radius of the earth in km
R == 6371

getDistanceFromLatLonInKm(lat1, lon1, lat2, lon2) ==
    FMul(FInt(R),
         HaversineC(HaversineA(FSin(FDiv(deg2rad(FSub(lat2, lat1)), FInt(2))),
                               FSin(FDiv(deg2rad(FSub(lon2, lon1)), FInt(2))),
                               FCos(deg2rad(lat1)),
                               FCos(deg2rad(lat2)))))

(* ---------------------------------------------------------------------- *)
(* State                                                                   *)
(* ---------------------------------------------------------------------- *)

VARIABLES
    users,  \* the users array: records [id, email, password, name]
    rides,  \* the rides array: records [rideId, userId, lat, lng,
            \* destination, transportMode, passengers, timestamp]
    now,    \* the clock Date.now() reads, in milliseconds
    last,   \* the last request handled and the response sent for it
    calc    \* two places and, once measured, their distance each way

vars == <<users, rides, now, last, calc>>

\* Most users, most rides and the latest clock reading the model explores.
MaxUsers == 2

MaxRides == 2

MaxClock == 2

SEARCH_RADIUS_KM == 10

(* ---------------------------------------------------------------------- *)
(* Requests the environment sends                                          *)
(* ---------------------------------------------------------------------- *)

Str1(c) == S(<<c>>)

SignupBody(email, password, name) ==
    [email |-> email, password |-> password, name |-> name]

\* Two people who sign up, and a body with each field left out or empty.
SignupRequests ==
    {SignupBody(e, Str1("p"), Str1("A")) : e \in {Str1("a"), Str1("b")}}
    \cup
    {SignupBody(Undefined, Str1("p"), Str1("A")),
     SignupBody(Str1("a"), S(<<>>), Str1("A")),
     SignupBody(Str1("a"), Str1("p"), Undefined)}

\* The right and a wrong password for each of them, and a body without email.
LoginRequests ==
    [email : {Str1("a"), Str1("b")}, password : {Str1("p"), Str1("q")}]
    \cup
    {[email |-> Undefined, password |-> Str1("p")]}

Lat12 == N(FInt(12))

Lat1205 == N(Norm(1, 1205, -2))

Lng77 == N(FInt(77))

\* What a ride offers besides its place.
Driver ==
    [transportMode |-> Str1("D"), passengers |-> Str1("2"), destination |-> Str1("M")]

Rider ==
    [transportMode |-> Str1("R"), passengers |-> Undefined, destination |-> Undefined]

PublishBody(token, lat, lng, p) ==
    [token |-> token, lat |-> lat, lng |-> lng, transportMode |-> p.transportMode,
     passengers |-> p.passengers, destination |-> p.destination]

\* The bodies a client sends.  The token is the token of a login as it came
\* (a string) or the same digits as a JSON number; the coordinates are JSON
\* numbers: two places 0.05 degrees of latitude apart, and the equator and
\* the prime meridian.  One body leaves out each required field.
PublishRequests ==
    {PublishBody(Str1("1"), Lat12, Lng77, Driver),
     PublishBody(N(FInt(1)), Lat1205, Lng77, Rider)}
    \cup
    {PublishBody(Undefined, Lat12, Lng77, Driver),
     PublishBody(Str1("1"), Undefined, Lng77, Driver),
     PublishBody(Str1("1"), Lat12, Undefined, Driver),
     PublishBody(Str1("1"), N(Zero), Lng77, Driver),
     PublishBody(Str1("1"), Lat12, N(Zero), Driver)}

\* A query string carries strings, or nothing for a parameter left out: the
\* two places above, asked by nobody, by user "1" and by user "2", and one
\* 0.1 degrees of latitude north of the first.
SearchRequests ==
    [lat    : {S(<<"1", "2">>), S(<<"1", "2", ".", "0", "5">>)},
     lng    : {S(<<"7", "7">>)},
     userId : {Undefined, Str1("1"), Str1("2")}]
    \cup
    {[lat |-> S(<<"1", "2", ".", "1">>), lng |-> S(<<"7", "7">>), userId |-> Undefined],
     [lat |-> Undefined, lng |-> S(<<"7", "7">>), userId |-> Str1("1")],
     [lat |-> S(<<"1", "2">>), lng |-> S(<<>>), userId |-> Str1("1")]}

\* The coordinates the requests above carry, as the handlers parse them.
Latitudes ==
    {parseFloat(r.lat) : r \in {q \in PublishRequests \cup SearchRequests : Truthy(q.lat)}}

Longitudes ==
    {parseFloat(r.lng) : r \in {q \in PublishRequests \cup SearchRequests : Truthy(q.lng)}}

\* getDistanceFromLatLonInKm tabulated over those coordinates, so that the
\* distance of a pair of places is computed once.
DistancePairs ==
    {<<p, getDistanceFromLatLonInKm(p[1], p[2], p[3], p[4])>> :
        p \in Latitudes \X Longitudes \X Latitudes \X Longitudes}

DistanceTable == [p \in {d[1] : d \in DistancePairs} |->
                    (CHOOSE d \in DistancePairs : d[1] = p)[2]]

\* A call of getDistanceFromLatLonInKm by a handler.
Distance(lat1, lon1, lat2, lon2) ==
    IF <<lat1, lon1, lat2, lon2>> \in DOMAIN DistanceTable
    THEN DistanceTable[<<lat1, lon1, lat2, lon2>>]
    ELSE getDistanceFromLatLonInKm(lat1, lon1, lat2, lon2)

(* ---------------------------------------------------------------------- *)
(* Handlers.  Each returns the response (status, body) and the array as    *)
(* the handler leaves it.                                                  *)
(* ---------------------------------------------------------------------- *)

\* existingUser with the lookup never finding anyone.
existingUserNever(us, email) == 0

\* existingUser with the email compared with the stored password.
existingUserByPassword(us, email) ==
    IF \E i \in 1..Len(us) : StrictEq(us[i].password, email) THEN 1 ELSE 0

\* users.find(u => u.email === email): the index of the first such user, 0
\* when there is none.
existingUser(us, email) ==
    IF \E i \in 1..Len(us) : StrictEq(us[i].email, email)
    THEN CHOOSE i \in 1..Len(us) :
            /\ StrictEq(us[i].email, email)
            /\ \A j \in 1..(i - 1) : ~StrictEq(us[j].email, email)
    ELSE 0

\* Date.now().toString()
newId(t) == S(IntToChars(t))

\* newUser with the name stored as the email.
newUserNameAsEmail(t, req) ==
    [id |-> newId(t), email |-> req.name, password |-> req.password,
     name |-> req.name]

\* const newUser = { id: Date.now().toString(), email, password, name }
newUser(t, req) ==
    [id |-> newId(t), email |-> req.email, password |-> req.password,
     name |-> req.name]

\* push adding x at the front, as Array.prototype.unshift does.
unshift(arr, x) == <<x>> \o arr

\* Array.prototype.push: the array with x added at its end.
push(arr, x) == Append(arr, x)

\* users.push(newUser) and the 201 response of signup.
signupCreated(us, u) ==
    [status |-> 201,
     body   |-> [message |-> "Registration successful",
                 user |-> [id |-> u.id, name |-> u.name]],
     users  |-> push(us, u)]

\* POST /api/signup
signup(us, t, req) ==
    IF ~Truthy(req.email) \/ ~Truthy(req.password) \/ ~Truthy(req.name)
    THEN [status |-> 400,
          body   |-> [error |-> "All fields (name, email, password) are required."],
          users  |-> us]
    ELSE IF existingUser(us, req.email) # 0
    THEN [status |-> 409,
          body   |-> [error |-> "User already exists with this email."],
          users  |-> us]
    ELSE signupCreated(us, newUser(t, req))

\* findUser with the password left out of the comparison.
findUserByEmailOnly(us, email, password) ==
    IF \E i \in 1..Len(us) : StrictEq(us[i].email, email)
    THEN CHOOSE i \in 1..Len(us) : StrictEq(us[i].email, email)
    ELSE 0

\* users.find(u => u.email === email && u.password === password): the index
\* of the first such user, 0 when there is none.
findUser(us, email, password) ==
    LET hit(i) == StrictEq(us[i].email, email) /\ StrictEq(us[i].password, password)
    IN  IF \E i \in 1..Len(us) : hit(i)
        THEN CHOOSE i \in 1..Len(us) : hit(i) /\ \A j \in 1..(i - 1) : ~hit(j)
        ELSE 0

\* POST /api/login.  res.json without res.status answers 200.
login(us, req) ==
    LET user == findUser(us, req.email, req.password)
    IN  IF user = 0
        THEN [status |-> 401, body |-> [error |-> "Invalid email or password."]]
        ELSE [status |-> 200,
              body   |-> [message |-> "Login successful",
                          token |-> us[user].id, name |-> us[user].name]]

\* const rideRequest = { rideId: Date.now().toString(), userId: token, ... };
\* timestamp, a Date, is the clock reading it was made from.
rideRequest(t, req) ==
    [rideId        |-> newId(t),
     userId        |-> req.token,
     lat           |-> parseFloat(req.lat),
     lng           |-> parseFloat(req.lng),
     destination   |-> req.destination,
     transportMode |-> req.transportMode,
     passengers    |-> parseInt(req.passengers),
     timestamp     |-> t]

\* rides.push(rideRequest) and the 201 response of publish.
publishCreated(rs, ride) ==
    [status |-> 201,
     body   |-> [message |-> "Ride request published successfully",
                 rideId |-> ride.rideId],
     rides  |-> push(rs, ride)]

\* POST /api/rides
publish(rs, t, req) ==
    IF ~Truthy(req.token) \/ ~Truthy(req.lat) \/ ~Truthy(req.lng)
    THEN [status |-> 400,
          body   |-> [error |-> "Missing ride details (location or user token)."],
          rides  |-> rs]
    ELSE publishCreated(rs, rideRequest(t, req))

\* isMatch without the exclusion of the requester's own rides.
isMatchAnyOwner(ride, userLat, userLng, userId) ==
    FLe(Distance(userLat, userLng, ride.lat, ride.lng), FInt(SEARCH_RADIUS_KM))

\* The filter callback of the search: is the ride a match of the query?
isMatch(ride, userLat, userLng, userId) ==
    IF Truthy(userId) /\ StrictEq(ride.userId, userId) THEN FALSE
    ELSE FLe(Distance(userLat, userLng, ride.lat, ride.lng),
             FInt(SEARCH_RADIUS_KM))

\* The map callback of the search: the match as the response shows it.
formatMatch(m, userLat, userLng) ==
    [transportMode |-> m.transportMode,
     destination   |-> m.destination,
     passengers    |-> m.passengers,
     distanceKm    |-> S(toFixed2(Distance(userLat, userLng, m.lat, m.lng)))]

\* rides.filter(ride => ...): the matches among rs, in the order of rs.
RECURSIVE filterRides(_, _, _, _)
filterRides(rs, userLat, userLng, userId) ==
    IF rs = <<>> THEN <<>>
    ELSE (IF isMatch(Head(rs), userLat, userLng, userId) THEN <<Head(rs)>> ELSE <<>>)
         \o filterRides(Tail(rs), userLat, userLng, userId)

\* GET /api/rides/search.  In the response, matches is the handler's
\* filtered array of rides and body.matches the formatted array it sends.

\* matches.map(m => ...)
RECURSIVE mapMatches(_, _, _)
mapMatches(matches, userLat, userLng) ==
    IF matches = <<>> THEN <<>>
    ELSE <<formatMatch(Head(matches), userLat, userLng)>>
         \o mapMatches(Tail(matches), userLat, userLng)

\* res.json({ matches: responseMatches })
searchResponse(matches, userLat, userLng) ==
    [status  |-> 200,
     body    |-> [matches |-> mapMatches(matches, userLat, userLng)],
     matches |-> matches]

\* The search from the parsed coordinates on.
searchAt(rs, userLat, userLng, userId) ==
    searchResponse(filterRides(rs, userLat, userLng, userId), userLat, userLng)

search(rs, req) ==
    IF ~Truthy(req.lat) \/ ~Truthy(req.lng)
    THEN [status  |-> 400,
          body    |-> [error |-> "Latitude and Longitude required for search."],
          matches |-> <<>>]
    ELSE searchAt(rs, parseFloat(req.lat), parseFloat(req.lng), req.userId)

(* ---------------------------------------------------------------------- *)
(* Actions                                                                 *)
(* ---------------------------------------------------------------------- *)

\* Before the first request.
NoExchange ==
    [op |-> "none", req |-> <<>>, status |-> 0, body |-> <<>>, matches |-> <<>>]

\* No places chosen.
NoCalc == [A |-> <<>>, B |-> <<>>, dAB |-> <<>>, dBA |-> <<>>]

Init ==
    /\ users = <<>>
    /\ rides = <<>>
    /\ now = 1
    /\ last = NoExchange
    /\ calc = NoCalc

\* Time passes between two requests.
Tick ==
    /\ now < MaxClock
    /\ now' = now + 1
    /\ UNCHANGED <<users, rides, last, calc>>

\* The request and the response of a handler, as last records them.
Exchange(op, req, r) ==
    [op |-> op, req |-> req, status |-> r.status, body |-> r.body,
     matches |-> IF op = "search" THEN r.matches ELSE <<>>]

SignupDone(req, r) ==
    /\ Len(r.users) <= MaxUsers
    /\ users' = r.users
    /\ last' = Exchange("signup", req, r)
    /\ UNCHANGED <<rides, now, calc>>

Signup == \E req \in SignupRequests : SignupDone(req, signup(users, now, req))

LoginDone(req, r) ==
    /\ last' = Exchange("login", req, r)
    /\ UNCHANGED <<users, rides, now, calc>>

Login == \E req \in LoginRequests : LoginDone(req, login(users, req))

PublishDone(req, r) ==
    /\ Len(r.rides) <= MaxRides
    /\ rides' = r.rides
    /\ last' = Exchange("publish", req, r)
    /\ UNCHANGED <<users, now, calc>>

Publish == \E req \in PublishRequests : PublishDone(req, publish(rides, now, req))

SearchDone(req, r) ==
    /\ last' = Exchange("search", req, r)
    /\ UNCHANGED <<users, rides, now, calc>>

Search == \E req \in SearchRequests : SearchDone(req, search(rides, req))

Next == Tick \/ Signup \/ Login \/ Publish \/ Search

Spec == Init /\ [][Next]_vars

(* ---------------------------------------------------------------------- *)
(* The distance function on its own: two places are drawn from a grid and  *)
(* their distance is measured in both directions.                          *)
(* ---------------------------------------------------------------------- *)

GridLatitudes ==
    {ParseFloatChars(cs) : cs \in {<<"-", "3", "3", ".", "8", "7">>, <<"0">>,
                                    <<"1", "2">>, <<"1", "2", ".", "0", "5">>,
                                    <<"5", "1", ".", "5">>}}

GridLongitudes ==
    {ParseFloatChars(cs) : cs \in {<<"-", "0", ".", "1", "3">>, <<"0">>,
                                    <<"7", "7">>, <<"1", "5", "1", ".", "2">>}}

Places == GridLatitudes \X GridLongitudes

InitDist ==
    /\ users = <<>>
    /\ rides = <<>>
    /\ now = 1
    /\ last = NoExchange
    /\ \E A \in Places, B \in Places :
            calc = [A |-> A, B |-> B, dAB |-> <<>>, dBA |-> <<>>]

Measured(dAB, dBA) ==
    /\ calc.dAB = <<>>
    /\ calc' = [calc EXCEPT !.dAB = <<dAB>>, !.dBA = <<dBA>>]
    /\ UNCHANGED <<users, rides, now, last>>

Measure ==
    Measured(getDistanceFromLatLonInKm(calc.A[1], calc.A[2], calc.B[1], calc.B[2]),
             getDistanceFromLatLonInKm(calc.B[1], calc.B[2], calc.A[1], calc.A[2]))

NextDist == Measure

SpecDist == InitDist /\ [][NextDist]_vars

(* ---------------------------------------------------------------------- *)
(* Properties                                                              *)
(* ---------------------------------------------------------------------- *)

\* A step of Spec that leaves the clock alone is a handler's, and last' is
\* the request it handled and the response it sent.
Handled(op) == now' = now /\ last'.op = op

\* A field of a request that is present and not the empty string.
Present(x) == x # Undefined /\ x # S(<<>>)

AllPresent(req) == Present(req.email) /\ Present(req.password) /\ Present(req.name)

\* The users of us whose email is email.
WithEmail(us, email) == {i \in 1..Len(us) : us[i].email = email}

\* arr is the first Len(arr) elements of longer.
IsPrefix(arr, longer) ==
    Len(arr) <= Len(longer) /\ \A i \in 1..Len(arr) : longer[i] = arr[i]

\* C1: a signup whose email, password and name are non-empty and whose
\* email is the email of a user already in the users list is answered 409
\* and leaves the users list as it was.
C1_DuplicateSignupConflict ==
    [][(/\ Handled("signup")
        /\ AllPresent(last'.req)
        /\ WithEmail(users, last'.req.email) # {})
       => (last'.status = 409 /\ users' = users)]_vars

\* C1 witness: a signup was answered 409 while its email was registered.
C1_Witness ==
    /\ last.op = "signup"
    /\ last.status = 409
    /\ AllPresent(last.req)
    /\ WithEmail(users, last.req.email) # {}

\* The user a successful signup of req appends, with the id the response
\* names.
Registered(req, body) ==
    [id |-> body.user.id, email |-> req.email, password |-> req.password,
     name |-> req.name]

SignupSucceeded ==
    /\ last'.status = 201
    /\ last'.body.user.name = last'.req.name
    /\ last'.body.user.id.t = "string"
    /\ users' = Append(users, Registered(last'.req, last'.body))

\* C2 as claimed: a signup whose email, password and name are all present
\* is answered 201 with the new user's id and name and appends exactly that
\* user to the users list.
C2_Claimed ==
    [][(Handled("signup") /\ AllPresent(last'.req)) => SignupSucceeded]_vars

\* C2 amended: a signup whose email, password and name are all present and
\* whose email is not the email of a user already in the users list is
\* answered 201 with the new user's id and name and appends exactly that
\* user to the users list.
C2_SignupSucceeds ==
    [][(/\ Handled("signup")
        /\ AllPresent(last'.req)
        /\ WithEmail(users, last'.req.email) = {})
       => SignupSucceeded]_vars

\* C2 witness: a second user was registered by a signup answered 201.
C2_Witness ==
    /\ last.op = "signup"
    /\ last.status = 201
    /\ Len(users) = 2
    /\ users[2] = Registered(last.req, last.body)

\* C3: no two entries of the users list have the same email.
C3_EmailUnique ==
    \A i, j \in 1..Len(users) : i # j => users[i].email # users[j].email

\* C3 witness: two users are registered and a further signup with the
\* email of one of them has just been turned down.
C3_Witness ==
    /\ Len(users) = 2
    /\ last.op = "signup"
    /\ last.status = 409

\* The users whose email and password are those of the login request req.
Credentialed(us, req) ==
    {i \in 1..Len(us) : us[i].email = req.email /\ us[i].password = req.password}

\* C7: a login is answered 200 exactly when some user has the email and the
\* password of the request, and then with that user's id as token and that
\* user's name; otherwise it is answered 401.
C7_LoginExact ==
    last.op = "login" =>
        /\ last.status \in {200, 401}
        /\ last.status = 200 <=> Credentialed(users, last.req) # {}
        /\ last.status = 200 =>
              \A i \in Credentialed(users, last.req) :
                  /\ last.body.token = users[i].id
                  /\ last.body.name = users[i].name

\* C7 witness: the second user has logged in.
C7_Witness ==
    /\ last.op = "login"
    /\ last.status = 200
    /\ Credentialed(users, last.req) = {2}

\* C10: both lists only grow at the end; login, search and every request
\* answered 400, 401 or 409 leave both as they were; a signup answered 201
\* appends one user and leaves the rides alone; a publish answered 201
\* appends one ride and leaves the users alone.
C10_AppendOnly ==
    [][/\ IsPrefix(users, users') /\ IsPrefix(rides, rides')
       /\ (now' = now /\ (\/ last'.op \in {"login", "search"}
                          \/ last'.status \in {400, 401, 409}))
            => (users' = users /\ rides' = rides)
       /\ (Handled("signup") /\ last'.status = 201)
            => (rides' = rides /\ Len(users') = Len(users) + 1)
       /\ (Handled("publish") /\ last'.status = 201)
            => (users' = users /\ Len(rides') = Len(rides) + 1)]_vars

\* C10 witness: a ride was appended to a list that already held one, with
\* a user registered.
C10_Witness ==
    /\ last.op = "publish"
    /\ last.status = 201
    /\ Len(rides) = 2
    /\ Len(users) >= 1

\* The query point of a search request.
QueryLat(req) == parseFloat(req.lat)

QueryLng(req) == parseFloat(req.lng)

Answered200 == last.op = "search" /\ last.status = 200

\* C4 as claimed: in the matches of a search answered 200 that names the
\* requester (userId), no ride has the requester's identifier as its owner,
\* whether the identifier came as a string or as a number when the ride was
\* published.
C4_Claimed ==
    (Answered200 /\ Truthy(last.req.userId)) =>
        \A k \in 1..Len(last.matches) :
            String(last.matches[k].userId) # String(last.req.userId)

\* The rides of rs that lie at the query point of req itself.
AtQueryPoint(rs, req) ==
    {i \in 1..Len(rs) : /\ ~IsNaN(QueryLat(req)) /\ ~IsNaN(QueryLng(req))
                        /\ rs[i].lat = QueryLat(req)
                        /\ rs[i].lng = QueryLng(req)}

\* The positions of the matches that are the ride and show distance 0.
ShownAtZero(ride) ==
    {k \in 1..Len(last.matches) :
        /\ last.matches[k] = ride
        /\ last.body.matches[k].distanceKm = S(<<"0", ".", "0", "0">>)}

\* C5: in a search answered 200, every stored ride published at the very
\* latitude and longitude of the query, whose owner is not the userId of
\* the query, is among the matches, with distance 0 (shown "0.00").
C5_RideAtQueryPointIncluded ==
    Answered200 =>
        \A i \in AtQueryPoint(rides, last.req) :
            rides[i].userId # last.req.userId => ShownAtZero(rides[i]) # {}

\* C5 witness: user "2" searched where another owner's ride was published
\* and got it.
C5_Witness ==
    /\ Answered200
    /\ last.req.userId = Str1("2")
    /\ AtQueryPoint(rides, last.req) # {}
    /\ Len(last.body.matches) >= 1

\* The stored rides within the radius of the query point whose owner is not
\* the userId of the query.
Wanted(rs, req) ==
    {i \in 1..Len(rs) :
        /\ FLe(Distance(QueryLat(req), QueryLng(req), rs[i].lat, rs[i].lng), FInt(10))
        /\ rs[i].userId # req.userId}

\* The position of ride i among the rides of I, in publish order.
Rank(I, i) == Cardinality({j \in I : j <= i})

\* The entry a response shows for a ride: its transport mode, destination
\* and passenger count, and its distance to the query point rounded to two
\* decimals.
Entry(ride, req) ==
    [transportMode |-> ride.transportMode,
     destination   |-> ride.destination,
     passengers    |-> ride.passengers,
     distanceKm    |-> S(toFixed2(Distance(QueryLat(req), QueryLng(req),
                                           ride.lat, ride.lng)))]

ExactlyThese(I) ==
    /\ Len(last.body.matches) = Cardinality(I)
    /\ \A i \in I : last.body.matches[Rank(I, i)] = Entry(rides[i], last.req)

Supplied(req) ==
    req.token # Undefined /\ req.lat.t = "number" /\ req.lng.t = "number"

Omitted(req) ==
    req.token = Undefined \/ req.lat = Undefined \/ req.lng = Undefined

PublishSucceeded ==
    /\ last'.status = 201
    /\ last'.body.rideId.t = "string"
    /\ Len(rides') = Len(rides) + 1
    /\ IsPrefix(rides, rides')
    /\ rides'[Len(rides')].userId = last'.req.token
    /\ rides'[Len(rides')].lat = last'.req.lat.n
    /\ rides'[Len(rides')].lng = last'.req.lng.n

\* C8 as claimed: a publish that supplies a token, a latitude and a
\* longitude, whatever numbers the coordinates are, is answered 201 with a
\* rideId and appends one ride owned by that token at that place; a publish
\* that omits one of the three is answered 400 and leaves the rides alone.
C8_Claimed ==
    [][Handled("publish") =>
          /\ Supplied(last'.req) => PublishSucceeded
          /\ Omitted(last'.req) => (last'.status = 400 /\ rides' = rides)]_vars

\* C9: the distance from A to B is the distance from B to A, so each is
\* within the search radius exactly when the other is.
C9_DistanceSymmetric ==
    calc.dAB # <<>> =>
        /\ FEq(calc.dAB[1], calc.dBA[1])
        /\ FLe(calc.dAB[1], FInt(10)) <=> FLe(calc.dBA[1], FInt(10))

\* C9 witness: two places of different latitude and longitude were measured
\* and are apart.
C9_Witness ==
    /\ calc.dAB # <<>>
    /\ calc.A[1] # calc.B[1]
    /\ calc.A[2] # calc.B[2]
    /\ FLt(Zero, calc.dAB[1])

\* C11 as claimed: while the clock never goes backwards but may read the
\* same millisecond for consecutive requests, no two users in the users
\* list have the same id and no two rides in the rides list have the same
\* rideId.
C11_Claimed ==
    /\ \A i, j \in 1..Len(users) : i # j => users[i].id # users[j].id
    /\ \A i, j \in 1..Len(rides) : i # j => rides[i].rideId # rides[j].rideId

====
